---- MODULE Spec2Model ----
(***************************************************************************)
(* Model of package mio: SelfCleaningHistogram (a reference counted,       *)
(* self-cleaning wrapper of a Histogram with a background decay goroutine) *)
(* and the Reader / Writer wrappers that sample the latency of each        *)
(* non-empty Read / Write into an attached Histogram.                      *)
(*                                                                         *)
(* Goroutines are interleaved at the granularity of their shared-memory    *)
(* and channel operations: every atomic add, every channel send, receive   *)
(* and close, every plain read and write of the closed flag is one step.   *)
(***************************************************************************)
EXTENDS Integers, Sequences, FiniteSets, TLC

\* ------------------------------------------------------------ bounds
\* number of goroutines that use the Registrar API directly
NProcs == 2
\* cap on the number of samples held by the wrapped Histogram
MaxSamples == 1
\* cap on the number of Shutdown calls started
MaxShutdowns == 2
\* cap on the number of Done calls made without a matching Register
MaxUnmatched == 1

\* cap on the number of Read / Write calls on the stream
MaxTransfers == 2
\* cap on the number of Close calls on the stream
MaxCloses == 2
\* largest byte count a Read / Write returns
MaxBytes == 1

Procs == 1..NProcs

\* the goroutine that owns the Reader / Writer
Owner == 0

Callers == Procs \cup {Owner}

\* ------------------------------------------------------------ uint64
\* cnt is a uint64; it is kept as four 16-bit limbs, least significant
\* first, so that atomic.AddUint64 wraps exactly as the machine word does.
Limb == 2^16

Zero64 == <<0, 0, 0, 0>>

One64 == <<1, 0, 0, 0>>

\* ^uint64(1): a decrement by two
AllOnesButOne64 == <<Limb - 2, Limb - 1, Limb - 1, Limb - 1>>

\* ^uint64(0): all bits set, the delta that decrements by one
AllOnes64 == <<Limb - 1, Limb - 1, Limb - 1, Limb - 1>>

\* atomic.AddUint64(&h.cnt, delta): addition modulo 2^64, returns the new value
AddUint64(a, b) ==
    LET s1 == a[1] + b[1]
        s2 == a[2] + b[2] + (s1 \div Limb)
        s3 == a[3] + b[3] + (s2 \div Limb)
        s4 == a[4] + b[4] + (s3 \div Limb)
    IN  <<s1 % Limb, s2 % Limb, s3 % Limb, s4 % Limb>>

\* the uint64 that represents the integer n (|n| < 2^16) modulo 2^64
FromInt(n) ==
    IF n >= 0 THEN <<n, 0, 0, 0>>
    ELSE <<Limb + n, Limb - 1, Limb - 1, Limb - 1>>

\* the value read back as a signed quantity would be negative (top bit set)
Wrapped(a) == a[4] >= Limb \div 2

\* ------------------------------------------------------------ state
VARIABLES
    cnt,         \* h.cnt
    closed,      \* h.closed
    qCloses,     \* number of close(h.q) executed; the second one panics
    dbuf,        \* len(h.d), capacity 1
    samples,     \* Histogram.Count() of the wrapped histogram
    t,           \* decay's timer: "nil", "armed", "stopped", "fired"
    ctl,         \* position of the decay goroutine
    guard,       \* the guard channel is closed
    constructed, \* NewSelfCleaningHistogram has returned
    pc,          \* position of each calling goroutine
    held,        \* the goroutine has called Register and not yet Done
    bal,         \* history: Register calls minus Done calls applied to cnt
    phase,       \* history of the idle window, see ZeroCrossed and Interrupted
    sdCalls,     \* history: Shutdown calls started
    sdOverlap,   \* history: two Shutdown calls overlapped in time
    orphans,     \* armed timers that decay's variable t no longer refers to
    zeroSinceAct, \* history: cnt crossed to zero since decay last received on h.c
    regBeforeQuit, \* history: a Register was applied before h.q was closed
    skind,       \* the wrapper built: "none", "Reader", "Writer"
    sh,          \* mr.h: "nil", "plain" (a Histogram), "sch" (also a Registrar)
    scloser,     \* the wrapped io.Reader / io.Writer implements io.Closer
    sclosed,     \* mr.closed
    spc,         \* position of the owner in NewReader / Close
    nRegister,   \* history: Register calls made by the wrapper
    nDone,       \* history: Done calls made by the wrapper
    nUlClose,    \* history: Close calls made on the wrapped stream
    closeRet,    \* history: what each Close call of the wrapper returned
    ulCloseRet,  \* history: what the wrapped stream's Close returned
    transfers,   \* history: Read / Write calls made
    kPos,        \* history: transfers that moved more than zero bytes
    kOk,         \* history: of those, the ones that returned no error
    updates,     \* history: Update calls made on the sink
    passThrough  \* history: every Read / Write returned the wrapped call's n, err

svars == <<skind, sh, scloser, sclosed, spc, nRegister, nDone, nUlClose,
           closeRet, ulCloseRet, transfers, kPos, kOk, updates, passThrough>>

vars == <<cnt, closed, qCloses, dbuf, samples, t, ctl, guard, constructed,
          pc, held, bal, phase, sdCalls, sdOverlap, orphans, zeroSinceAct,
          regBeforeQuit, skind, sh, scloser,
          sclosed, spc, nRegister, nDone, nUlClose, closeRet, ulCloseRet,
          transfers, kPos, kOk, updates, passThrough>>

hvars == <<cnt, closed, qCloses, dbuf, samples, t, ctl, guard, constructed>>

\* a second close of a closed channel panics and the program dies: no
\* goroutine takes a step after it
Panicked == qCloses > 1

QClosed == qCloses > 0

\* the goroutine is inside Shutdown
InShutdown(p) == pc[p] \in {"sd_set", "sd_close"}

\* History of the idle window that the clear-timer is meant to measure:
\*   "none"        no zero-crossing of cnt is waiting to be cleared
\*   "zeroed"      cnt crossed to zero and no Register has come since
\*   "interrupted" a Register came after a zero-crossing whose timer had
\*                 not fired
\*   "rezeroed"    cnt crossed to zero again after that Register and no
\*                 timer has been armed since
\* a Register: interrupts a zero-crossing that has not been cleared yet
Interrupted(ph) == IF ph = "none" THEN "none" ELSE "interrupted"

\* a Done that brings cnt to zero
ZeroCrossed(ph) == IF ph = "none" THEN "zeroed"
                   ELSE IF ph = "interrupted" THEN "rezeroed" ELSE ph

\* a timer armed after the zero-crossing that followed an interruption
Rearmed(ph) == IF ph = "rezeroed" THEN "zeroed" ELSE ph

\* NewSelfCleaningHistogram up to `<-guard`: channels made, decay spawned
Init ==
    /\ cnt = Zero64
    /\ closed = FALSE
    /\ qCloses = 0
    /\ dbuf = 0
    /\ samples = 0
    /\ t = "nil"
    /\ ctl = "start"
    /\ guard = FALSE
    /\ constructed = FALSE
    /\ pc = [p \in Callers |-> "idle"]
    /\ held = [p \in Callers |-> FALSE]
    /\ bal = 0
    /\ phase = "none"
    /\ sdCalls = 0
    /\ sdOverlap = FALSE
    /\ orphans = 0
    /\ zeroSinceAct = FALSE
    /\ regBeforeQuit = FALSE
    /\ skind = "none"
    /\ sh = "nil"
    /\ scloser = FALSE
    /\ sclosed = FALSE
    /\ spc = "new"
    /\ nRegister = 0
    /\ nDone = 0
    /\ nUlClose = 0
    /\ closeRet = <<>>
    /\ ulCloseRet = "none"
    /\ transfers = 0
    /\ kPos = 0
    /\ kOk = 0
    /\ updates = 0
    /\ passThrough = TRUE

\* ------------------------------------------------------------ constructor
\* a constructor that does not wait for the guard
NewWithoutGuard ==
    /\ ~Panicked
    /\ ~constructed
    /\ constructed' = TRUE
    /\ UNCHANGED <<cnt, closed, qCloses, dbuf, samples, t, ctl, guard,
                   pc, held, bal, phase, sdCalls, sdOverlap>>
    /\ UNCHANGED <<orphans, zeroSinceAct, regBeforeQuit>>
    /\ UNCHANGED svars

\* `<-guard; return h`
NewSelfCleaningHistogram ==
    /\ ~Panicked
    /\ guard
    /\ ~constructed
    /\ constructed' = TRUE
    /\ UNCHANGED <<cnt, closed, qCloses, dbuf, samples, t, ctl, guard,
                   pc, held, bal, phase, sdCalls, sdOverlap>>
    /\ UNCHANGED <<orphans, zeroSinceAct, regBeforeQuit>>
    /\ UNCHANGED svars

\* ------------------------------------------------------------ decay
\* `var t *time.Timer; close(guard)`
DecayStart ==
    /\ ~Panicked
    /\ ctl = "start"
    /\ guard' = TRUE
    /\ ctl' = "loop"
    /\ UNCHANGED <<cnt, closed, qCloses, dbuf, samples, t, constructed,
                   pc, held, bal, phase, sdCalls, sdOverlap>>
    /\ UNCHANGED <<orphans, zeroSinceAct, regBeforeQuit>>
    /\ UNCHANGED svars

\* arriving at the select: h.c is unbuffered and no sender ever waits on it
\* (Register sends without blocking), so the goroutine takes the q case when
\* q is closed and parks otherwise
DecaySelect ==
    /\ ~Panicked
    /\ ctl = "loop"
    /\ ctl' = IF QClosed THEN "quit" ELSE "select"
    /\ UNCHANGED <<cnt, closed, qCloses, dbuf, samples, t, guard, constructed,
                   pc, held, bal, phase, sdCalls, sdOverlap>>
    /\ UNCHANGED <<orphans, zeroSinceAct, regBeforeQuit>>
    /\ UNCHANGED svars

\* a Stop that stops nothing
StopNothing(tm) == tm

\* t.Stop(): an armed timer is stopped, any other timer is left as it is
Stop(tm) == IF tm = "armed" THEN "stopped" ELSE tm

\* case <-h.q: `if t != nil { t.Stop() }; return`
DecayQuit ==
    /\ ~Panicked
    /\ ctl = "quit"
    /\ t' = Stop(t)
    /\ ctl' = "done"
    /\ UNCHANGED <<cnt, closed, qCloses, dbuf, samples, guard, constructed,
                   pc, held, bal, phase, sdCalls, sdOverlap>>
    /\ UNCHANGED <<orphans, zeroSinceAct, regBeforeQuit>>
    /\ UNCHANGED svars

\* after case <-h.c: `if t != nil { t.Stop() }`
DecayStopTimer ==
    /\ ~Panicked
    /\ ctl = "stop"
    /\ t' = Stop(t)
    /\ ctl' = "recv_d"
    /\ UNCHANGED <<cnt, closed, qCloses, dbuf, samples, guard, constructed,
                   pc, held, bal, phase, sdCalls, sdOverlap>>
    /\ UNCHANGED <<orphans, zeroSinceAct, regBeforeQuit>>
    /\ UNCHANGED svars

\* `<-h.d`: blocks until the buffer holds a value; q is not looked at here
DecayRecvDrained ==
    /\ ~Panicked
    /\ ctl = "recv_d"
    /\ dbuf > 0
    /\ dbuf' = dbuf - 1
    /\ ctl' = "arm"
    /\ UNCHANGED <<cnt, closed, qCloses, samples, t, guard, constructed,
                   pc, held, bal, phase, sdCalls, sdOverlap>>
    /\ UNCHANGED <<orphans, zeroSinceAct, regBeforeQuit>>
    /\ UNCHANGED svars

\* `t = time.AfterFunc(delay, h.Clear)`
DecayArm ==
    /\ ~Panicked
    /\ ctl = "arm"
    /\ t' = "armed"
    /\ orphans' = IF t = "armed" THEN orphans + 1 ELSE orphans
    /\ ctl' = "loop"
    /\ phase' = Rearmed(phase)
    /\ UNCHANGED <<cnt, closed, qCloses, dbuf, samples, guard, constructed,
                   pc, held, bal, sdCalls, sdOverlap>>
    /\ UNCHANGED <<zeroSinceAct, regBeforeQuit>>
    /\ UNCHANGED svars

decay ==
    \/ DecayStart
    \/ DecaySelect
    \/ DecayQuit
    \/ DecayStopTimer
    \/ DecayRecvDrained
    \/ DecayArm

\* a callback that also empties the drained channel
ClearAndDrain ==
    /\ ~Panicked
    /\ t = "armed" \/ orphans > 0
    /\ samples' = 0
    /\ dbuf' = 0
    /\ IF t = "armed"
       THEN t' = "fired" /\ UNCHANGED orphans
       ELSE orphans' = orphans - 1 /\ UNCHANGED t
    /\ phase' = "none"
    /\ UNCHANGED <<cnt, closed, qCloses, ctl, guard, constructed,
                   pc, held, bal, sdCalls, sdOverlap>>
    /\ UNCHANGED <<zeroSinceAct, regBeforeQuit>>
    /\ UNCHANGED svars

\* a timer fires: h.Clear() runs on the timer's goroutine
Clear ==
    /\ ~Panicked
    /\ t = "armed" \/ orphans > 0
    /\ samples' = 0
    /\ IF t = "armed"
       THEN t' = "fired" /\ UNCHANGED orphans
       ELSE orphans' = orphans - 1 /\ UNCHANGED t
    /\ phase' = "none"
    /\ UNCHANGED <<cnt, closed, qCloses, dbuf, ctl, guard, constructed,
                   pc, held, bal, sdCalls, sdOverlap>>
    /\ UNCHANGED <<zeroSinceAct, regBeforeQuit>>
    /\ UNCHANGED svars

\* ------------------------------------------------------------ Register
\* `atomic.AddUint64(&h.cnt, 1)`
RegisterAdd(p) ==
    /\ ~Panicked
    /\ constructed
    /\ pc[p] = "idle"
    /\ ~held[p]
    /\ cnt' = AddUint64(cnt, One64)
    /\ pc' = [pc EXCEPT ![p] = "reg_send"]
    /\ bal' = bal + 1
    /\ phase' = Interrupted(phase)
    /\ regBeforeQuit' = (regBeforeQuit \/ ~QClosed)
    /\ UNCHANGED <<closed, qCloses, dbuf, samples, t, ctl, guard, constructed,
                   held, sdCalls, sdOverlap>>
    /\ UNCHANGED <<orphans, zeroSinceAct>>
    /\ UNCHANGED svars

\* a send on the unbuffered h.c succeeds only if decay is parked in its select
CanSendActivity == ctl = "select"

\* `h.c <- struct{}{}`: a send without the default case
RegisterSendBlocking(p) ==
    /\ ~Panicked
    /\ pc[p] = "reg_send"
    /\ CanSendActivity
    /\ ctl' = IF CanSendActivity THEN "stop" ELSE ctl
    /\ zeroSinceAct' = IF CanSendActivity THEN FALSE ELSE zeroSinceAct
    /\ pc' = [pc EXCEPT ![p] = "idle"]
    /\ held' = [held EXCEPT ![p] = TRUE]
    /\ UNCHANGED <<cnt, closed, qCloses, dbuf, samples, t, guard, constructed,
                   bal, phase, sdCalls, sdOverlap>>
    /\ UNCHANGED <<orphans, regBeforeQuit>>
    /\ UNCHANGED svars

\* `select { case h.c <- struct{}{}: default: }`
RegisterSend(p) ==
    /\ ~Panicked
    /\ pc[p] = "reg_send"
    /\ ctl' = IF CanSendActivity THEN "stop" ELSE ctl
    /\ zeroSinceAct' = IF CanSendActivity THEN FALSE ELSE zeroSinceAct
    /\ pc' = [pc EXCEPT ![p] = "idle"]
    /\ held' = [held EXCEPT ![p] = TRUE]
    /\ UNCHANGED <<cnt, closed, qCloses, dbuf, samples, t, guard, constructed,
                   bal, phase, sdCalls, sdOverlap>>
    /\ UNCHANGED <<orphans, regBeforeQuit>>
    /\ UNCHANGED svars

Register(p) == RegisterAdd(p) \/ RegisterSend(p)

\* Histogram.Update(v) on the embedded histogram, by a registered user
Update(p) ==
    /\ ~Panicked
    /\ pc[p] = "idle"
    /\ held[p]
    /\ samples < MaxSamples
    /\ samples' = samples + 1
    /\ UNCHANGED <<cnt, closed, qCloses, dbuf, t, ctl, guard, constructed,
                   pc, held, bal, phase, sdCalls, sdOverlap>>
    /\ UNCHANGED <<orphans, zeroSinceAct, regBeforeQuit>>
    /\ UNCHANGED svars

\* ------------------------------------------------------------ Done
\* `cnt := atomic.AddUint64(&h.cnt, ^uint64(0)); if cnt == 0 {`
DoneAdd(p) ==
    LET n == AddUint64(cnt, AllOnes64) IN
    /\ ~Panicked
    /\ constructed
    /\ pc[p] = "idle"
    /\ cnt' = n
    /\ pc' = [pc EXCEPT ![p] = IF n = Zero64 THEN "done_send" ELSE "idle"]
    /\ held' = [held EXCEPT ![p] = FALSE]
    /\ bal' = bal - 1
    /\ phase' = IF n = Zero64 THEN ZeroCrossed(phase) ELSE phase
    /\ zeroSinceAct' = (zeroSinceAct \/ n = Zero64)
    /\ UNCHANGED <<closed, qCloses, dbuf, samples, t, ctl, guard, constructed,
                   sdCalls, sdOverlap>>
    /\ UNCHANGED <<orphans, regBeforeQuit>>
    /\ UNCHANGED svars

\* the buffered send on h.d with a default case: the new length of the buffer
SendDrained(len) == IF len < 1 THEN len + 1 ELSE len

\* `select { case h.d <- struct{}{}: default: }`
DoneSend(p) ==
    /\ ~Panicked
    /\ pc[p] = "done_send"
    /\ dbuf' = SendDrained(dbuf)
    /\ pc' = [pc EXCEPT ![p] = "idle"]
    /\ UNCHANGED <<cnt, closed, qCloses, samples, t, ctl, guard, constructed,
                   held, bal, phase, sdCalls, sdOverlap>>
    /\ UNCHANGED <<orphans, zeroSinceAct, regBeforeQuit>>
    /\ UNCHANGED svars

\* Done called by a goroutine that holds a registration
Done(p) == (held[p] /\ DoneAdd(p)) \/ DoneSend(p)

\* Done called by a goroutine that holds no registration
UnmatchedDone(p) ==
    /\ ~held[p]
    /\ bal > -MaxUnmatched
    /\ DoneAdd(p)

\* ------------------------------------------------------------ Shutdown
\* `if !h.closed {`: a plain, unsynchronised read
ShutdownCheck(p) ==
    /\ ~Panicked
    /\ constructed
    /\ pc[p] = "idle"
    /\ sdCalls < MaxShutdowns
    /\ sdCalls' = sdCalls + 1
    /\ sdOverlap' = (sdOverlap \/ \E o \in Procs \ {p} : InShutdown(o))
    /\ pc' = [pc EXCEPT ![p] = IF closed THEN "idle" ELSE "sd_set"]
    /\ UNCHANGED <<cnt, closed, qCloses, dbuf, samples, t, ctl, guard,
                   constructed, held, bal, phase>>
    /\ UNCHANGED <<orphans, zeroSinceAct, regBeforeQuit>>
    /\ UNCHANGED svars

\* a Shutdown that forgets to set the flag
ShutdownSetForgets(p) ==
    /\ ~Panicked
    /\ pc[p] = "sd_set"
    /\ pc' = [pc EXCEPT ![p] = "sd_close"]
    /\ UNCHANGED <<cnt, closed, qCloses, dbuf, samples, t, ctl, guard,
                   constructed, held, bal, phase, sdCalls, sdOverlap>>
    /\ UNCHANGED <<orphans, zeroSinceAct, regBeforeQuit>>
    /\ UNCHANGED svars

\* `h.closed = true`: a plain, unsynchronised write
ShutdownSet(p) ==
    /\ ~Panicked
    /\ pc[p] = "sd_set"
    /\ closed' = TRUE
    /\ pc' = [pc EXCEPT ![p] = "sd_close"]
    /\ UNCHANGED <<cnt, qCloses, dbuf, samples, t, ctl, guard, constructed,
                   held, bal, phase, sdCalls, sdOverlap>>
    /\ UNCHANGED <<orphans, zeroSinceAct, regBeforeQuit>>
    /\ UNCHANGED svars

\* `close(h.q)`: wakes decay if it is parked in its select; closing a closed
\* channel panics
ShutdownClose(p) ==
    /\ ~Panicked
    /\ pc[p] = "sd_close"
    /\ qCloses' = qCloses + 1
    /\ ctl' = IF ctl = "select" THEN "quit" ELSE ctl
    /\ pc' = [pc EXCEPT ![p] = "idle"]
    /\ UNCHANGED <<cnt, closed, dbuf, samples, t, guard, constructed,
                   held, bal, phase, sdCalls, sdOverlap>>
    /\ UNCHANGED <<orphans, zeroSinceAct, regBeforeQuit>>
    /\ UNCHANGED svars

Shutdown(p) == ShutdownCheck(p) \/ ShutdownSet(p) \/ ShutdownClose(p)

\* ------------------------------------------------------------ Reader, Writer
hall == <<cnt, closed, qCloses, dbuf, samples, t, ctl, guard, constructed,
          pc, held, bal, phase, sdCalls, sdOverlap, orphans, zeroSinceAct,
          regBeforeQuit>>

\* `h.(Registrar)`: of the sinks only the SelfCleaningHistogram is a Registrar
IsRegistrar(h) == h = "sch"

Sinks == {"nil", "plain", "sch"}

Errors == {"nil", "err"}

\* NewReader / NewWriter up to the call of r.Register()
NewStream(k, h, c) ==
    /\ ~Panicked
    /\ constructed
    /\ spc = "new"
    /\ skind' = k
    /\ sh' = h
    /\ scloser' = c
    /\ nRegister' = IF IsRegistrar(h) THEN nRegister + 1 ELSE nRegister
    /\ spc' = IF IsRegistrar(h) THEN "ctor" ELSE "open"
    /\ UNCHANGED <<sclosed, nDone, nUlClose, closeRet, ulCloseRet, transfers,
                   kPos, kOk, updates, passThrough>>
    /\ UNCHANGED hall

NewReader == \E h \in Sinks, c \in BOOLEAN : NewStream("Reader", h, c)

NewWriter == \E h \in Sinks, c \in BOOLEAN : NewStream("Writer", h, c)

\* the r.Register() call of NewReader / NewWriter
StreamRegister ==
    /\ spc = "ctor"
    /\ Register(Owner)

\* `return mr`
NewStreamReturn ==
    /\ ~Panicked
    /\ spc = "ctor"
    /\ pc[Owner] = "idle"
    /\ held[Owner]
    /\ spc' = "open"
    /\ UNCHANGED <<skind, sh, scloser, sclosed, nRegister, nDone, nUlClose,
                   closeRet, ulCloseRet, transfers, kPos, kOk, updates,
                   passThrough>>
    /\ UNCHANGED hall

\* `if n >= 0 && mr.h != nil {`: samples empty transfers too
ShouldSampleAlways(n, h) == n >= 0 /\ h # "nil"

\* `if n > 0 {`: no test of the sink
ShouldSampleNoNilCheck(n, h) == n > 0

\* `if n > 0 && mr.h != nil {`
ShouldSample(n, h) == n > 0 /\ h # "nil"

\* `return n, err`
Returned(n, err) == <<n, err>>

\* Read / Write: the wrapped call returns n, err; the wrapper samples and
\* returns
Transfer(k, n, err) ==
    /\ ~Panicked
    /\ spc = "open"
    /\ skind = k
    /\ transfers < MaxTransfers
    /\ transfers' = transfers + 1
    /\ kPos' = IF n > 0 THEN kPos + 1 ELSE kPos
    /\ kOk' = IF n > 0 /\ err = "nil" THEN kOk + 1 ELSE kOk
    /\ updates' = IF ShouldSample(n, sh) THEN updates + 1 ELSE updates
    /\ samples' = IF ShouldSample(n, sh) THEN samples + 1 ELSE samples
    /\ passThrough' = (passThrough /\ Returned(n, err) = <<n, err>>)
    /\ UNCHANGED <<skind, sh, scloser, sclosed, spc, nRegister, nDone,
                   nUlClose, closeRet, ulCloseRet>>
    /\ UNCHANGED <<cnt, closed, qCloses, dbuf, t, ctl, guard, constructed,
                   pc, held, bal, phase, sdCalls, sdOverlap, orphans,
                   zeroSinceAct, regBeforeQuit>>

ReaderRead == \E n \in 0..MaxBytes, err \in Errors : Transfer("Reader", n, err)

WriterWrite == \E n \in 0..MaxBytes, err \in Errors : Transfer("Writer", n, err)

\* a Close that forgets `mr.closed = true`
CloseBeginForgetsFlag(k) ==
    /\ ~Panicked
    /\ spc = "open"
    /\ skind = k
    /\ Len(closeRet) < MaxCloses
    /\ IF sclosed
       THEN /\ closeRet' = Append(closeRet, "nil")
            /\ UNCHANGED <<sclosed, spc, nDone>>
       ELSE /\ UNCHANGED sclosed
            /\ nDone' = IF IsRegistrar(sh) THEN nDone + 1 ELSE nDone
            /\ spc' = IF IsRegistrar(sh) THEN "close_done" ELSE "close_ul"
            /\ UNCHANGED closeRet
    /\ UNCHANGED <<skind, sh, scloser, nRegister, nUlClose, ulCloseRet,
                   transfers, kPos, kOk, updates, passThrough>>
    /\ UNCHANGED hall

\* Close up to the call of r.Done():
\* `if mr.closed { return nil }; mr.closed = true; if r, ok := mr.h.(Registrar)`
CloseBegin(k) ==
    /\ ~Panicked
    /\ spc = "open"
    /\ skind = k
    /\ Len(closeRet) < MaxCloses
    /\ IF sclosed
       THEN /\ closeRet' = Append(closeRet, "nil")
            /\ UNCHANGED <<sclosed, spc, nDone>>
       ELSE /\ sclosed' = TRUE
            /\ nDone' = IF IsRegistrar(sh) THEN nDone + 1 ELSE nDone
            /\ spc' = IF IsRegistrar(sh) THEN "close_done" ELSE "close_ul"
            /\ UNCHANGED closeRet
    /\ UNCHANGED <<skind, sh, scloser, nRegister, nUlClose, ulCloseRet,
                   transfers, kPos, kOk, updates, passThrough>>
    /\ UNCHANGED hall

ReaderClose == CloseBegin("Reader")

WriterClose == CloseBegin("Writer")

\* the r.Done() call of Close
StreamDone ==
    /\ spc = "close_done"
    /\ Done(Owner)

\* r.Done() has returned, or was not called
DoneReturned ==
    \/ spc = "close_ul"
    \/ spc = "close_done" /\ pc[Owner] = "idle" /\ ~held[Owner]

\* a Close that drops the wrapped stream's error
CloseUnderlyingSwallows(err) ==
    /\ ~Panicked
    /\ DoneReturned
    /\ IF scloser
       THEN /\ nUlClose' = nUlClose + 1
            /\ ulCloseRet' = err
            /\ closeRet' = Append(closeRet, "nil")
       ELSE /\ closeRet' = Append(closeRet, "nil")
            /\ UNCHANGED <<nUlClose, ulCloseRet>>
    /\ spc' = "open"
    /\ UNCHANGED <<skind, sh, scloser, sclosed, nRegister, nDone, transfers,
                   kPos, kOk, updates, passThrough>>
    /\ UNCHANGED hall

\* `if c, ok := mr.Reader.(io.Closer); ok { return c.Close() }; return nil`
CloseUnderlying(err) ==
    /\ ~Panicked
    /\ DoneReturned
    /\ IF scloser
       THEN /\ nUlClose' = nUlClose + 1
            /\ ulCloseRet' = err
            /\ closeRet' = Append(closeRet, err)
       ELSE /\ closeRet' = Append(closeRet, "nil")
            /\ UNCHANGED <<nUlClose, ulCloseRet>>
    /\ spc' = "open"
    /\ UNCHANGED <<skind, sh, scloser, sclosed, nRegister, nDone, transfers,
                   kPos, kOk, updates, passThrough>>
    /\ UNCHANGED hall

CloseFinish == \E err \in Errors : CloseUnderlying(err)

\* ------------------------------------------------------------ specification
Next ==
    \/ NewSelfCleaningHistogram
    \/ decay
    \/ Clear
    \/ \E p \in Procs : Register(p)
    \/ \E p \in Procs : Update(p)
    \/ \E p \in Procs : Done(p)
    \/ \E p \in Procs : Shutdown(p)

Spec == Init /\ [][Next]_vars

\* callers that also call Done without a registration; they record no samples
NextAny ==
    \/ NewSelfCleaningHistogram
    \/ decay
    \/ Clear
    \/ \E p \in Procs : Register(p)
    \/ \E p \in Procs : Done(p)
    \/ \E p \in Procs : UnmatchedDone(p)
    \/ \E p \in Procs : Shutdown(p)

SpecAny == Init /\ [][NextAny]_vars

\* one goroutine using a Reader or a Writer over a sink, while other
\* goroutines may shut the SelfCleaningHistogram down
NextStream ==
    \/ NewSelfCleaningHistogram
    \/ decay
    \/ Clear
    \/ \E p \in Procs : Shutdown(p)
    \/ NewReader
    \/ NewWriter
    \/ StreamRegister
    \/ NewStreamReturn
    \/ ReaderRead
    \/ WriterWrite
    \/ ReaderClose
    \/ WriterClose
    \/ StreamDone
    \/ CloseFinish

SpecStream == Init /\ [][NextStream]_vars

\* ------------------------------------------------------------ properties
\* number of Shutdown calls that have returned
ShutdownsReturned == sdCalls - Cardinality({p \in Procs : InShutdown(p)})

\* every calling goroutine is between calls
AllIdle == \A p \in Procs : pc[p] = "idle"

\* C1: the timer callback never calls Clear in a state where the live-count
\* is greater than zero.
C1_NoClearWhileLive == [][Clear => cnt = Zero64]_vars

\* C2: once every Register is matched by a Done and neither a Register nor a
\* Shutdown follows, the pool is eventually cleared. Stated on the runs'
\* final states: when all callers have returned, nobody is registered,
\* Shutdown was never called, and neither decay nor the timer can take
\* another step, the pool has been cleared.
C2_IdleIsCleared ==
    (/\ constructed
     /\ AllIdle
     /\ \A p \in Procs : ~held[p]
     /\ cnt = Zero64
     /\ sdCalls = 0
     /\ ~ENABLED decay
     /\ ~ENABLED Clear) => samples = 0

\* C3: after a Register that follows a zero-crossing whose timer has not
\* fired, the pool is not cleared until the live-count has crossed zero
\* again and a new timer has been armed after that crossing.
C3_InterruptedNotCleared == [][Clear => phase \in {"none", "zeroed"}]_vars

\* C4 (as claimed): the live-count equals Register calls minus Done calls
\* and is never observed negative or wrapped around.
C4_NeverWrapped == bal >= 0 /\ cnt = <<bal, 0, 0, 0>> /\ ~Wrapped(cnt)

\* C4 (amended): the live-count equals Register calls minus Done calls
\* modulo 2^64; it is wrapped around exactly when more Done than Register
\* calls have been applied.
C4_CountModulo == cnt = FromInt(bal) /\ (Wrapped(cnt) <=> bal < 0)

\* C4 witness: Register, Done, Register have been applied
C4_Witness == bal = 1 /\ dbuf = 1 /\ cnt = One64

\* C5: after the Shutdown call that closed q has returned no clear-timer
\* fires and no clear-timer is armed.
C5_NoClearAfterShutdown ==
    [][(QClosed /\ ShutdownsReturned >= 1) => ~(Clear \/ DecayArm)]_vars

\* C6: after Shutdown the decay goroutine reaches its return from any state.
\* Stated as: once q is closed, decay is never blocked short of its return.
C6_DecayNeverBlockedAfterShutdown ==
    (QClosed /\ ~Panicked /\ ctl # "done") => ENABLED decay

\* C7: N successive Shutdown calls, none overlapping another, close q
\* exactly once without a fault, and leave the closed flag set.
C7_SequentialShutdownIdempotent ==
    ~sdOverlap =>
        /\ qCloses <= 1
        /\ ShutdownsReturned >= 1 => (closed /\ qCloses = 1)

\* C7 witness: two Shutdown calls, one after the other, have returned
C7_Witness ==
    ~sdOverlap /\ sdCalls >= 2 /\ ShutdownsReturned = sdCalls /\ qCloses = 1

\* C8: in every interleaving of concurrent Shutdown calls the quit channel
\* is closed at most once.
C8_QuitClosedOnce == qCloses <= 1

\* C9: for a wrapper over a Registrar sink, N >= 1 Close calls make one Done
\* call and one Close of the wrapped stream (none if it is no io.Closer); with
\* the Register of the constructor the live-count is back where it was.
C9_CloseOnce ==
    (IsRegistrar(sh) /\ Len(closeRet) >= 1) =>
        /\ nRegister = 1
        /\ nDone = 1
        /\ nUlClose = (IF scloser THEN 1 ELSE 0)
        /\ cnt = Zero64

\* C9 witness: two Close calls on a wrapper over a Registrar have returned
C9_Witness == IsRegistrar(sh) /\ Len(closeRet) >= 2 /\ scloser /\ nDone = 1

\* C10 (as claimed): the sink has received one sample for every transfer
\* that moved more than zero bytes and returned no error, and no other.
C10_SamplesAreSuccesses == (skind # "none" /\ sh # "nil") => updates = kOk

\* C10 (amended): the sink has received one sample for every transfer that
\* moved more than zero bytes, with or without an error, and no other.
C10_SamplesAreNonEmpty == (skind # "none" /\ sh # "nil") => updates = kPos

\* C10 witness: an empty and a non-empty transfer were made, one sample
C10_Witness == sh # "nil" /\ transfers = 2 /\ kPos = 1 /\ updates = 1

\* C11: the first Close calls Done before it closes the wrapped stream and
\* returns that close's result; later Close calls return nil and do not
\* close the wrapped stream again.
C11_CloseResults ==
    /\ (nUlClose >= 1 /\ IsRegistrar(sh)) =>
           (nDone = 1 /\ ~held[Owner] /\ pc[Owner] = "idle")
    /\ nUlClose <= 1
    /\ Len(closeRet) >= 1 =>
           /\ closeRet[1] = (IF scloser THEN ulCloseRet ELSE "nil")
           /\ IsRegistrar(sh) => nDone = 1
           /\ \A i \in 2..Len(closeRet) : closeRet[i] = "nil"

\* C11 witness: the first Close failed, the second returned nil
C11_Witness ==
    /\ IsRegistrar(sh)
    /\ Len(closeRet) = 2
    /\ closeRet[1] = "err"
    /\ closeRet[2] = "nil"

\* C12: a wrapper with a nil sink calls neither Register nor Done, records
\* no sample, returns what the wrapped stream returns and closes nothing but
\* the wrapped stream.
C12_NilSink ==
    (skind # "none" /\ sh = "nil") =>
        /\ nRegister = 0
        /\ nDone = 0
        /\ updates = 0
        /\ samples = 0
        /\ cnt = Zero64
        /\ passThrough
        /\ pc[Owner] = "idle"
        /\ nUlClose <= (IF scloser THEN 1 ELSE 0)

\* C12 witness: a nil-sink wrapper moved bytes and was closed
C12_Witness ==
    /\ skind # "none"
    /\ sh = "nil"
    /\ kPos >= 1
    /\ scloser
    /\ nUlClose = 1
    /\ Len(closeRet) >= 1

\* C13: no Register's send on h.c is dropped while a timer is armed or
\* while decay is about to arm one.
C13_DropOnlyWhenDisarmed ==
    [][\A p \in Procs :
         (RegisterSend(p) /\ ~CanSendActivity) => (t # "armed" /\ ctl # "arm")]_vars

\* C14: when decay receives from h.d, the live-count has crossed zero since
\* the activity signal that moved decay to that receive (it never arms the
\* timer on a drained signal left over from before).
C14_NoStaleDrained == [][DecayRecvDrained => zeroSinceAct]_vars

\* C15: a Register issued while decay is at or on its way to its select
\* (q not closed) gets its activity signal to decay.
C15_ActivityDelivered ==
    [][\A p \in Procs :
         (RegisterSend(p) /\ ctl \in {"loop", "select"} /\ ~QClosed)
             => ctl' = "stop"]_vars

\* C16: at most one timer is armed, only decay and the timer itself change
\* the timer, and no timer is armed while decay waits on h.d.
C16_OneTimer ==
    /\ [](orphans = 0 /\ (ctl = "recv_d" => t # "armed"))
    /\ [][t' # t => (decay \/ Clear)]_vars

\* C16 witness: decay has stopped a timer it armed before and waits on h.d
C16_Witness == ctl = "recv_d" /\ t = "stopped"

\* C17: the constructor returns after decay has started, and a Shutdown that
\* closes q before any Register leaves decay on its way to its return,
\* never blocked, with no timer ever armed.
C17_ShutdownFirst ==
    /\ constructed => ctl # "start"
    /\ (QClosed /\ ~regBeforeQuit /\ ~Panicked) =>
           /\ t = "nil"
           /\ orphans = 0
           /\ ctl \in {"loop", "quit", "done"}
           /\ ctl = "done" \/ ENABLED decay

\* C17 witness: decay has returned after a Shutdown that came first, and a
\* Register followed
C17_Witness ==
    /\ QClosed
    /\ ~regBeforeQuit
    /\ ctl = "done"
    /\ \E p \in Procs : held[p]

\* C18: Register and Done never block: whatever decay does and whatever h.d
\* holds, each of their steps can be taken, and the live-count counts every
\* caller that has registered even when its signal was dropped.
C18_NeverBlocks ==
    ~Panicked =>
        /\ \A p \in Procs :
             /\ pc[p] = "reg_send" => ENABLED RegisterSend(p)
             /\ pc[p] = "done_send" => ENABLED DoneSend(p)
             /\ (constructed /\ pc[p] = "idle" /\ ~held[p]) => ENABLED RegisterAdd(p)
             /\ (pc[p] = "idle" /\ held[p]) => ENABLED DoneAdd(p)
        /\ cnt = FromInt(Cardinality({p \in Procs : held[p] \/ pc[p] = "reg_send"}))

\* C18 witness: a Done is about to drop its signal: h.d is full and decay
\* has returned
C18_Witness == \E p \in Procs : pc[p] = "done_send" /\ dbuf = 1 /\ ctl = "done"

\* C19: the timer's firing empties the pool and changes nothing else of the
\* histogram; decay parked in its select still takes the next activity
\* signal.
C19_ClearOnlyClears ==
    [][Clear =>
         /\ samples' = 0
         /\ UNCHANGED <<cnt, closed, qCloses, dbuf, ctl, guard, pc, held>>
         /\ ctl = "select" => CanSendActivity']_vars

\* C19 witness: the timer has fired while decay is parked in its select
C19_Witness == t = "fired" /\ ctl = "select" /\ samples = 0

====
